---- MODULE Spec2Model ----
(***************************************************************************)
(* A model of the CloudFront-updater handler of                            *)
(* src/lambda/lambda-updater/index.ts (lines 231-721): an object-created   *)
(* notification makes the handler purge a destination prefix, read the     *)
(* zip object, upload every file entry, resolve a distribution by its      *)
(* comment and submit a cache invalidation with retry.                     *)
(*                                                                         *)
(* Strings the code inspects (object keys, entry paths, comments) are      *)
(* sequences of one-character strings, so that startsWith, the regular     *)
(* expressions, split and the storage service's prefix match are computed  *)
(* character by character.                                                 *)
(***************************************************************************)
EXTENDS Integers, Sequences, FiniteSets, TLC

\* ------------------------------------------------------------------------
\* Strings
\* ------------------------------------------------------------------------

Min(a, b) == IF a <= b THEN a ELSE b

\* The characters "zip/" and ".zip" the handler matches on.
ZipSlash == <<"z", "i", "p", "/">>
DotZip == <<".", "z", "i", "p">>
Slash == <<"/">>

DropChars(s, n) == SubSeq(s, n + 1, Len(s))

\* String.prototype.startsWith
StartsWith(s, p) == Len(s) >= Len(p) /\ SubSeq(s, 1, Len(p)) = p

EndsWith(s, p) == Len(s) >= Len(p) /\ SubSeq(s, Len(s) - Len(p) + 1, Len(s)) = p

\* Index of the first "/" of s, 0 when s has none.
FirstSlash(s) ==
  IF \E n \in 1..Len(s) : s[n] = "/"
  THEN CHOOSE n \in 1..Len(s) : s[n] = "/" /\ \A m \in 1..(n - 1) : s[m] # "/"
  ELSE 0

\* Index of the last occurrence of character c in s, 0 when s has none.
LastIndexOf(s, c) ==
  IF \E n \in 1..Len(s) : s[n] = c
  THEN CHOOSE n \in 1..Len(s) : s[n] = c /\ \A m \in (n + 1)..Len(s) : s[m] # c
  ELSE 0

\* s.replace(/^zip\//, "")
StripZipPrefix(s) == IF StartsWith(s, ZipSlash) THEN DropChars(s, Len(ZipSlash)) ELSE s

\* s.replace(/\.zip$/, "")
StripZipSuffix(s) == IF EndsWith(s, DotZip) THEN SubSeq(s, 1, Len(s) - Len(DotZip)) ELSE s

\* StripFirstDir as it would be with a greedy pattern, /^.*\//: everything
\* up to the last "/" is removed.
StripDirs(s) == DropChars(s, LastIndexOf(s, "/"))

\* s.replace(/^.*?\//, ""): the shortest prefix ending in "/" is removed; a
\* string without "/" is left as it is.
StripFirstDir(s) == IF FirstSlash(s) = 0 THEN s ELSE DropChars(s, FirstSlash(s))

\* s.split("/")[0]
FirstSegment(s) == IF FirstSlash(s) = 0 THEN s ELSE SubSeq(s, 1, FirstSlash(s) - 1)

\* decodeURIComponent: every escape %XY is replaced by the character it
\* encodes.  The escapes of the model are %2F ("/") and %2E ("."); a "%"
\* that starts no escape makes the decoding throw (URIError).
URIError == <<"URIError">>

RECURSIVE decodeURIComponent(_)
decodeURIComponent(s) ==
  IF s = <<>> THEN <<>>
  ELSE IF s[1] # "%"
       THEN LET rest == decodeURIComponent(Tail(s))
            IN  IF rest = URIError THEN URIError ELSE <<s[1]>> \o rest
       ELSE IF Len(s) >= 3 /\ SubSeq(s, 2, 3) \in {<<"2", "F">>, <<"2", "E">>}
            THEN LET rest == decodeURIComponent(DropChars(s, 3))
                 IN  IF rest = URIError THEN URIError
                     ELSE (IF s[3] = "F" THEN <<"/">> ELSE <<".">>) \o rest
            ELSE URIError

\* Code unit of a character (the characters the model's strings use); the
\* storage service lists keys in the order of their code units.
CharCode(c) ==
  CASE c = "%" -> 37 [] c = "." -> 46 [] c = "/" -> 47 [] c = "2" -> 50
    [] c = "E" -> 69 [] c = "F" -> 70 [] c = "a" -> 97 [] c = "d" -> 100
    [] c = "h" -> 104 [] c = "i" -> 105 [] c = "j" -> 106 [] c = "k" -> 107
    [] c = "o" -> 111 [] c = "p" -> 112 [] c = "r" -> 114 [] c = "s" -> 115
    [] c = "t" -> 116 [] c = "x" -> 120 [] c = "z" -> 122

\* s sorts strictly before t.
RECURSIVE LexLess(_, _)
LexLess(s, t) ==
  IF t = <<>> THEN FALSE
  ELSE IF s = <<>> THEN TRUE
  ELSE IF s[1] # t[1] THEN CharCode(s[1]) < CharCode(t[1])
  ELSE LexLess(Tail(s), Tail(t))

\* The elements of the finite set S of strings, in listing order.
RECURSIVE SortedKeys(_)
SortedKeys(S) ==
  IF S = {} THEN <<>>
  ELSE LET least == CHOOSE k \in S : \A m \in S \ {k} : LexLess(k, m)
       IN  <<least>> \o SortedKeys(S \ {least})

\* mime-types lookup(path): the extension of the last path segment, looked
\* up in the type table (the library computes extname("x." + path).substr(1)).
\* The library's false, for no extension or no entry, is NoType here.
NoType == "false"

MimeTypes(ext) ==
  CASE ext = <<"h">> -> "text/html"
    [] ext = <<"j">> -> "application/javascript"
    [] OTHER -> NoType

lookup(path) ==
  LET full == <<"x", ".">> \o path
      base == DropChars(full, LastIndexOf(full, "/"))
      dot  == LastIndexOf(base, ".")
      ext  == IF dot <= 1 THEN <<>> ELSE DropChars(base, dot)
  IN  IF ext = <<>> THEN NoType ELSE MimeTypes(ext)

\* ------------------------------------------------------------------------
\* Inputs
\* ------------------------------------------------------------------------

\* Object keys of the staging area, as the notification carries them
\* (URL-encoded) and decoded.
SiteKeyEncoded == <<"z", "i", "p", "%", "2", "F", "a", "/", "r", ".", "z", "i", "p">>
SiteKey == <<"z", "i", "p", "/", "a", "/", "r", ".", "z", "i", "p">>
DocKey == <<"d", "/", "x", ".", "t">>
TextKey == <<"z", "i", "p", "/", "a", "/", "r", ".", "t">>
BareKey == <<"z", "i", "p", "/", ".", "z", "i", "p">>
ZipZipKey == <<"z", "i", "p", "/", "z", "i", "p", ".", "z", "i", "p">>
BadEscapeKey == <<"z", "i", "p", "/", "%", "a">>
OtherSiteKey == <<"z", "i", "p", "/", "d", "/", "x", ".", "z", "i", "p">>

\* Keys a notification's record may carry.
EventKeys == {SiteKeyEncoded, DocKey, TextKey, BareKey, ZipZipKey, BadEscapeKey}

\* A notification: its Records, each reduced to the object key it names.
\* The platform may also deliver a notification without records, or with
\* several: here one that names the site's archive and then another site's.
Events ==
  {<<>>} \cup {<<[key |-> k]>> : k \in EventKeys}
         \cup {<<[key |-> SiteKeyEncoded], [key |-> OtherSiteKey]>>}

\* Objects that may lie in the bucket before the invocation: two under the
\* site's destination prefix a/r, one under the sibling prefix a/r2.
StaleKeys ==
  { <<"a", "/", "r", "/", "o", ".", "h">>,
    <<"a", "/", "r", "/", "k">>,
    <<"a", "/", "r", "2", "/", "k">> }

\* Entries of an archive: a path and a type.
File(path) == [path |-> path, type |-> "File"]
Directory(path) == [path |-> path, type |-> "Directory"]

IndexEntry == File(<<"r", "/", "i", ".", "h">>)
ScriptEntry == File(<<"r", "/", "s", "/", "a", ".", "j">>)
RootEntry == Directory(<<"r", "/">>)
PlainEntry == File(<<"k">>)
ZippedEntry == File(<<"z", "i", "p", "/", "r", "/", "i", ".", "h">>)
BareEntry == File(<<"h">>)

\* The archives a staged object may hold: the empty archive, archives of
\* one and two files, an archive with a directory entry, an archive with a
\* path that begins with "zip/" and a file at its root whose whole name is
\* an extension of the type table.
Archives ==
  { <<>>, <<IndexEntry>>, <<RootEntry, IndexEntry>>, <<ScriptEntry, PlainEntry>>,
    <<ZippedEntry, BareEntry>> }

\* Distributions of the account, as ListDistributions returns them.
Distribution(id, comment) == [Id |-> id, Comment |-> comment]

\* The accounts of the model: no distribution; one, named "a"; three of
\* which the second and third are named "a"; three of which only the last
\* is named "a".
DistributionLists ==
  { <<>>,
    <<Distribution("E1", <<"a">>)>>,
    <<Distribution("E0", <<"d">>), Distribution("E1", <<"a">>), Distribution("E2", <<"a">>)>>,
    <<Distribution("E0", <<"d">>), Distribution("E3", <<"d">>), Distribution("E1", <<"a">>)>> }

\* The invocations of the handler the model follows.
Invocations == {1}

\* ------------------------------------------------------------------------
\* State
\* ------------------------------------------------------------------------

VARIABLES
  bucket,         \* the artifact bucket: object key -> [Body, ContentType]
  distributions,  \* the account's distributions
  now,            \* Date.now()
  event,          \* event[i]: the notification invocation i is called with
  inv             \* inv[i]: the local state of invocation i of the handler

vars == <<bucket, distributions, now, event, inv>>

\* How many times the clock may advance (a bound of the model).
MaxClock == 1

\* ListObjectsV2 returns at most MaxKeys keys per page (1000 in the service,
\* scaled down here).
MaxKeys == 3

\* The purge's batch size, "i += 1000" and "slice(i, i + 1000)" in
\* deleteS3ObjectsAtPath, scaled down with MaxKeys so that a page of the
\* model splits into several batches.
BatchSize == 2

\* The state of an invocation before the handler is called.
IdleInvocation ==
  [ pc                |-> "idle",
    result            |-> "none",      \* of the handler's promise: resolved, rejected
    cause             |-> "none",      \* the failure the handler logged
    error             |-> "none",      \* the error the handler's promise rejects with
    decodedObjectKey  |-> <<>>,
    destinationPath   |-> <<>>,
    continuationToken |-> <<>>,        \* <<>>: undefined
    isTruncated       |-> TRUE,
    contents          |-> <<>>,        \* listResponse.Contents of the current page
    deleteBatches     |-> <<>>,        \* of the current page: [keys, state]
    totalDeleted      |-> 0,
    deleteRequested   |-> {},          \* every key sent in a DeleteObjects request
    deletesSent       |-> 0,           \* DeleteObjects requests sent
    deletesReturned   |-> 0,           \* DeleteObjects requests answered
    bodyStream        |-> "unread",    \* s3Object.Body: unread, null, stream
    archive           |-> <<>>,        \* the entries of the stream being parsed
    parser            |-> "none",      \* none, parsing, finished, error
    entries           |-> <<>>,        \* per emitted entry: the state of its callback
    promise           |-> "none",      \* of extractAndUploadFromStream
    isEmpty           |-> TRUE,
    distributionId    |-> "undefined",
    callerReference   |-> -1,
    retries           |-> 0,
    attempt           |-> 0,
    submissions       |-> <<>>,        \* CreateInvalidation requests, with results
    waits             |-> <<>> ]       \* backoff delays waited, in ms

Object(body, contentType) == [Body |-> body, ContentType |-> contentType]

\* The bucket right after the upload that raised the notification: the
\* staged object under the (decoded) key of each record, plus stale objects.
StagedBucket(e, archive, stale) ==
  LET staged == { decodeURIComponent(e[n].key) : n \in 1..Len(e) } \ {URIError}
  IN  [ k \in staged \cup stale |->
          IF k \in staged THEN Object([entries |-> archive], "application/zip")
          ELSE Object([stale |-> TRUE], "text/html") ]

Init ==
  /\ \E e \in Events, archive \in Archives, stale \in SUBSET StaleKeys :
       /\ event = [i \in Invocations |-> e]
       /\ bucket = StagedBucket(e, archive, stale)
  /\ distributions \in DistributionLists
  /\ now = 0
  /\ inv = [i \in Invocations |-> IdleInvocation]

\* ------------------------------------------------------------------------
\* The handler (index.ts 266-326)
\* ------------------------------------------------------------------------

Set(i, changes) == inv' = [inv EXCEPT ![i] = changes]

\* Line 324: the message of the error the handler throws.
HandlerError == "Error processing S3 event"

\* The handler's catch block: whatever was thrown is logged and replaced
\* by Error("Error processing S3 event"); the invocation fails.
Thrown(s, cause) ==
  [s EXCEPT !.pc = "done", !.result = "rejected", !.cause = cause, !.error = HandlerError]

\* The handler returns normally.
Returned(s) == [s EXCEPT !.pc = "done", !.result = "resolved"]

\* destinationPath: "zip/" removed from the front, ".zip" from the end.
destinationPath(decodedObjectKey) == StripZipSuffix(StripZipPrefix(decodedObjectKey))

\* The handler's guard: only objects of the "zip/" directory are processed.
InZipDirectory(decodedObjectKey) == StartsWith(decodedObjectKey, ZipSlash)

\* distributionName: destinationPath.split("/")[0]
distributionName(path) == FirstSegment(path)

\* The keys a ListObjectsV2 request with this prefix and continuation token
\* has still to report, in listing order.
Listing(prefix, token) ==
  SortedKeys({ k \in DOMAIN bucket :
                 /\ StartsWith(k, prefix)
                 /\ (token = <<>> \/ LexLess(token, k)) })

\* FirstRecord as it would be with the last record read instead.
LastRecord(records) == records[Len(records)]

\* Lines 278-279: event.Records[0], the only record the handler reads.
FirstRecord(records) == records[1]

\* handler, lines 276-306: the first record's key is decoded; a key outside
\* "zip/" ends the invocation, any other key starts extractAndUploadZipFile,
\* whose first step is the first ListObjectsV2 request of the purge.
handler(i) ==
  /\ inv[i].pc = "idle"
  /\ LET s == inv[i]
         records == event[i]
         decoded == IF records = <<>> THEN URIError
                    ELSE decodeURIComponent(FirstRecord(records).key)
     IN  IF records = <<>>
         THEN Set(i, Thrown(s, "TypeError"))
         ELSE IF decoded = URIError
         THEN Set(i, Thrown(s, "URIError"))
         ELSE IF ~InZipDirectory(decoded)
         THEN Set(i, Returned([s EXCEPT !.decodedObjectKey = decoded]))
         ELSE Set(i, [s EXCEPT !.pc = "listing",
                               !.decodedObjectKey = decoded,
                               !.destinationPath = destinationPath(decoded)])
  /\ UNCHANGED <<bucket, distributions, now, event>>

\* ------------------------------------------------------------------------
\* deleteS3ObjectsAtPath (index.ts 535-598)
\* ------------------------------------------------------------------------

\* Batches as it would be without the slicing: the whole page in one
\* delete request.
WholePage(contents) == << [keys |-> contents, state |-> "inflight"] >>

\* Lines 557-567: the page's keys cut into batches of BatchSize, in order.
Batches(contents) ==
  [ b \in 1..((Len(contents) + BatchSize - 1) \div BatchSize) |->
      [ keys  |-> SubSeq(contents, (b - 1) * BatchSize + 1,
                         Min(b * BatchSize, Len(contents))),
        state |-> "inflight" ] ]

SeqToSet(q) == { q[n] : n \in 1..Len(q) }

\* PageJoined as it would be with the requests raced instead of joined:
\* the loop goes on when the first delete request of the page has returned.
PageJoinedByFirst(batches) == \E b \in 1..Len(batches) : batches[b].state = "done"

\* PageJoined as it would be with only the last request of the page awaited:
\* the loop goes on when the delete request of the last batch has returned.
PageJoinedByLast(batches) == batches[Len(batches)].state = "done"

\* PageJoined as it would be with the delete requests not awaited as a
\* whole: the loop goes on whatever the state of the other requests.
PageNotJoined(batches) == TRUE

\* Line 570, await Promise.all(...): the loop goes on when every delete
\* request of the page has returned.
PageJoined(batches) == \A b \in 1..Len(batches) : batches[b].state = "done"

\* AfterPage as it would be with a purge that never asks for a second
\* page: the purge returns after the first page.
AfterFirstPage(s) == [s EXCEPT !.pc = "fetching"]

\* AfterPage as it would be with a bound on the number of pages: the purge
\* returns after its second delete request whatever the listing reports.
AfterPageBounded(s) ==
  [s EXCEPT !.pc = IF s.isTruncated /\ s.deletesSent < 2 THEN "listing" ELSE "fetching"]

\* The while loop's next step once a page is dealt with: another
\* ListObjectsV2 request while the listing is truncated, else the purge
\* returns and extractAndUploadZipFile sends the GetObject request (345).
AfterPage(s) == [s EXCEPT !.pc = IF s.isTruncated THEN "listing" ELSE "fetching"]

\* Lines 552-567, 587-588: the response to ListObjectsV2.  The service
\* reports some or all of the remaining keys, at most MaxKeys of them, and
\* whether more remain; the request may also fail.
listObjects(i) ==
  /\ inv[i].pc = "listing"
  /\ LET s == inv[i]
         remaining == Listing(s.destinationPath, s.continuationToken)
     IN  \/ Set(i, Thrown(s, "PurgeFailed"))
         \/ /\ remaining = <<>>
            /\ Set(i, AfterPage([s EXCEPT !.isTruncated = FALSE,
                                          !.continuationToken = <<>>,
                                          !.contents = <<>>,
                                          !.deleteBatches = <<>>]))
         \/ \E n \in 1..Min(MaxKeys, Len(remaining)) :
              LET contents == SubSeq(remaining, 1, n)
                  truncated == n < Len(remaining)
              IN  Set(i, [s EXCEPT
                    !.pc = "deleting",
                    !.contents = contents,
                    !.deleteBatches = Batches(contents),
                    !.deleteRequested = @ \cup SeqToSet(contents),
                    !.deletesSent = @ + Len(Batches(contents)),
                    !.isTruncated = truncated,
                    !.continuationToken = IF truncated THEN contents[n] ELSE <<>>])
  /\ UNCHANGED <<bucket, distributions, now, event>>

\* AddToTotal as it would be with the counter assigned instead of
\* incremented: the total is the size of the batch that returned last.
SizeOfBatch(totalDeleted, batch) == Len(batch)

\* Line 581, totalDeleted += batch.length.
AddToTotal(totalDeleted, batch) == totalDeleted + Len(batch)

\* Lines 571-582: one DeleteObjects request of the page returns.  The other
\* requests of the page stay in flight whatever happens to this one, also
\* after Promise.all has rejected and the handler has thrown.
deleteObjects(i) ==
  /\ \E b \in 1..Len(inv[i].deleteBatches) :
       /\ inv[i].deleteBatches[b].state = "inflight"
       /\ LET s == inv[i]
              batch == s.deleteBatches[b]
          IN  \/ /\ bucket' = [k \in DOMAIN bucket \ SeqToSet(batch.keys) |-> bucket[k]]
                 /\ LET t == [s EXCEPT !.deleteBatches[b].state = "done",
                                       !.deletesReturned = @ + 1,
                                       !.totalDeleted = AddToTotal(@, batch.keys)]
                    IN  Set(i, IF t.pc = "deleting" /\ PageJoined(t.deleteBatches)
                               THEN AfterPage(t) ELSE t)
              \/ /\ UNCHANGED bucket
                 /\ LET t == [s EXCEPT !.deleteBatches[b].state = "failed",
                                       !.deletesReturned = @ + 1]
                    IN  Set(i, IF t.pc = "deleting" THEN Thrown(t, "PurgeFailed") ELSE t)
  /\ UNCHANGED <<distributions, now, event>>

\* ------------------------------------------------------------------------
\* extractAndUploadZipFile, fetchS3ObjectStream, extractAndUploadFromStream
\* (index.ts 336-442)
\* ------------------------------------------------------------------------

\* getDistributionIdByName is called (311): the ListDistributions request
\* is sent.
LookupStarted(s) == [s EXCEPT !.pc = "resolving"]

\* Lines 345-356: the response to GetObject.  The request throws when the
\* object is gone (or the service fails); a response without a readable
\* body makes extractAndUploadZipFile return, and the handler goes on; a
\* body is piped into the zip parser and the promise of line 413 is pending.
fetchS3ObjectStream(i) ==
  /\ inv[i].pc = "fetching"
  /\ LET s == inv[i]
     IN  \/ Set(i, Thrown(s, "ReadFailed"))
         \/ /\ s.decodedObjectKey \in DOMAIN bucket
            /\ Set(i, LookupStarted([s EXCEPT !.bodyStream = "null"]))
         \/ /\ s.decodedObjectKey \in DOMAIN bucket
            /\ "entries" \in DOMAIN bucket[s.decodedObjectKey].Body
            /\ Set(i, [s EXCEPT !.pc = "extracting",
                                !.bodyStream = "stream",
                                !.archive = bucket[s.decodedObjectKey].Body.entries,
                                !.parser = "parsing",
                                !.promise = "pending",
                                !.isEmpty = TRUE])
  /\ UNCHANGED <<bucket, distributions, now, event>>

\* States of an entry's callback: "open" (PutObject sent, the entry's body
\* still being read), "sent" (body read, response awaited), "uploaded",
\* "failed", "drained" (a directory entry).
InFlight == {"open", "sent"}

\* The parser reads on once the entry it emitted has been consumed.
Consumed(entries) == \A k \in 1..Len(entries) : entries[k] # "open"

\* reject(error) of lines 422 and 439: it settles the promise only while
\* it is pending, and then the handler's catch block runs.
Reject(s, cause) ==
  IF s.promise = "pending" THEN Thrown([s EXCEPT !.promise = "rejected"], cause) ELSE s

\* Resolve as it would be if an empty archive ended the invocation: with
\* isEmpty still true the handler returns without lookup and invalidation.
ResolveUnlessEmpty(s) ==
  IF s.promise # "pending" THEN s
  ELSE IF s.isEmpty THEN [s EXCEPT !.promise = "resolved", !.pc = "done", !.result = "resolved"]
  ELSE [s EXCEPT !.promise = "resolved", !.pc = "resolving"]

\* resolve() of line 433: it settles the promise only while it is pending,
\* and then the handler goes on to the distribution lookup.
Resolve(s) ==
  IF s.promise = "pending" THEN LookupStarted([s EXCEPT !.promise = "resolved"]) ELSE s

\* handleZipEntry as it would be without the test of the type: a PutObject
\* request is sent for every entry.
UploadEveryEntry(entry) == "open"

\* Lines 457-483: the state of an entry's callback once handleZipEntry has
\* run up to its first await: for a file the PutObject request is sent (the
\* body is being read), any other entry is drained and the callback is over.
handleZipEntry(entry) == IF entry.type = "File" THEN "open" ELSE "drained"

\* Lines 414-418 and 457-483: the parser emits the next entry and the
\* "entry" callback starts.  For a file the PutObject request is sent; a
\* directory is drained and the callback completes.
emitEntry(i) ==
  /\ inv[i].parser = "parsing"
  /\ Len(inv[i].entries) < Len(inv[i].archive)
  /\ Consumed(inv[i].entries)
  /\ LET s == inv[i]
         entry == s.archive[Len(s.entries) + 1]
         callback == handleZipEntry(entry)
     IN  Set(i, [s EXCEPT !.entries = Append(@, callback),
                          !.isEmpty = IF callback = "drained" THEN FALSE ELSE @])
  /\ UNCHANGED <<bucket, distributions, now, event>>

\* The storage client has read the whole body of entry k; the parser may
\* read on while the response is awaited.
bodyConsumed(i) ==
  /\ inv[i].parser = "parsing"
  /\ \E k \in 1..Len(inv[i].entries) :
       /\ inv[i].entries[k] = "open"
       /\ Set(i, [inv[i] EXCEPT !.entries[k] = "sent"])
  /\ UNCHANGED <<bucket, distributions, now, event>>

\* Lines 504-509: the key an entry is uploaded under.
finalKey(path, destination) ==
  destination \o Slash \o StripFirstDir(StripZipPrefix(path))

\* Line 501: the content type of an entry.
contentType(path) ==
  IF lookup(path) = NoType THEN "application/octet-stream" ELSE lookup(path)

\* Lines 520-523 and 418: PutObject of entry k succeeds; the object is
\* stored and the callback completes.
uploadFileToS3(i) ==
  /\ \E k \in 1..Len(inv[i].entries) :
       /\ inv[i].entries[k] = "sent"
       /\ LET s == inv[i]
              path == s.archive[k].path
              key == finalKey(path, s.destinationPath)
          IN  /\ bucket' = [x \in DOMAIN bucket \cup {key} |->
                              IF x = key THEN Object([path |-> path], contentType(path))
                              ELSE bucket[x]]
              /\ Set(i, [s EXCEPT !.entries[k] = "uploaded", !.isEmpty = FALSE])
  /\ UNCHANGED <<distributions, now, event>>

\* Lines 471-477 and 419-422: PutObject of entry k fails; the entry is
\* drained and the callback rejects the promise.
uploadFailed(i) ==
  /\ \E k \in 1..Len(inv[i].entries) :
       /\ inv[i].entries[k] \in InFlight
       /\ Set(i, Reject([inv[i] EXCEPT !.entries[k] = "failed"], "UploadFailed"))
  /\ UNCHANGED <<bucket, distributions, now, event>>

\* Lines 426-434: the parser has read the whole archive and emits "finish".
finish(i) ==
  /\ inv[i].parser = "parsing"
  /\ Len(inv[i].entries) = Len(inv[i].archive)
  /\ Consumed(inv[i].entries)
  /\ Set(i, Resolve([inv[i] EXCEPT !.parser = "finished"]))
  /\ UNCHANGED <<bucket, distributions, now, event>>

\* Lines 436-440: the parser emits "error" (a malformed archive, a broken
\* source stream).
unzipError(i) ==
  /\ inv[i].parser = "parsing"
  /\ Set(i, Reject([inv[i] EXCEPT !.parser = "error"], "MalformedArchive"))
  /\ UNCHANGED <<bucket, distributions, now, event>>

\* ------------------------------------------------------------------------
\* getDistributionIdByName, invalidateCloudFront, retryWithBackoff
\* (index.ts 607-721)
\* ------------------------------------------------------------------------

\* Line 685: retryWithBackoff(fn, 3).
Retries == 3

\* Line 701: delay = 1000.
Delay == 1000

\* Line 666: Items: ["/*"].
InvalidationPaths == <<"/*">>

\* FindDistribution as it would be with a predicate that holds of every
\* item: the first distribution of the list.
FindFirstDistribution(items, name) == IF items = <<>> THEN 0 ELSE 1

\* Lines 625-627: distributions.find(d => d.Comment === distributionName),
\* as the index of the first match, 0 when there is none.
FindDistribution(items, name) ==
  IF \E n \in 1..Len(items) : items[n].Comment = name
  THEN CHOOSE n \in 1..Len(items) :
         /\ items[n].Comment = name
         /\ \A m \in 1..(n - 1) : items[m].Comment # name
  ELSE 0

\* ListDistributions reports at most this many distributions per response
\* (100 in the service when the request names no MaxItems, scaled down here).
ListMaxItems == 2

\* Lines 612-615: data.DistributionList?.Items of the single
\* ListDistributionsCommand({}) the function sends: the first page of the
\* account's distributions; the response's IsTruncated and NextMarker are
\* not read.
FirstPage(account) == SubSeq(account, 1, Min(Len(account), ListMaxItems))

\* Line 630: a distribution was found and carries an id.
HasId(items, n) == n # 0 /\ items[n].Id # ""

\* Submit as it would be with the parameters built anew for every attempt:
\* each request takes its caller reference from the clock.
SubmitWithNewReference(s) ==
  [s EXCEPT !.pc = "invalidating",
            !.submissions = Append(@, [ DistributionId  |-> s.distributionId,
                                        CallerReference |-> now,
                                        Paths           |-> InvalidationPaths,
                                        result          |-> "inflight" ])]

\* Lines 674-676: fn() sends a CreateInvalidation request built from the
\* parameters of lines 660-669.
Submit(s) ==
  [s EXCEPT !.pc = "invalidating",
            !.submissions = Append(@, [ DistributionId  |-> s.distributionId,
                                        CallerReference |-> s.callerReference,
                                        Paths           |-> InvalidationPaths,
                                        result          |-> "inflight" ])]

\* Lines 612-637, 657-672 and 703-706: the response to ListDistributions.
\* With an id found, invalidateCloudFront takes its caller reference from
\* the clock and retryWithBackoff makes the first submission.
getDistributionIdByName(i) ==
  /\ inv[i].pc = "resolving"
  /\ LET s == inv[i]
         name == distributionName(s.destinationPath)
         items == FirstPage(distributions)
         found == FindDistribution(items, name)
     IN  \/ Set(i, Thrown(s, "DistributionLookupFailed"))
         \/ /\ items = <<>>
            /\ Set(i, Thrown(s, "NoDistributions"))
         \/ /\ items # <<>>
            /\ ~HasId(items, found)
            /\ Set(i, Thrown(s, "NotFound"))
         \/ /\ items # <<>>
            /\ HasId(items, found)
            /\ Set(i, Submit([s EXCEPT !.distributionId = items[found].Id,
                                       !.callerReference = now,
                                       !.retries = Retries,
                                       !.attempt = 0]))
  /\ UNCHANGED <<bucket, distributions, now, event>>

\* Results of a CreateInvalidation request: created, a transient service
\* error, an error no retry can cure.
Errors == {"transient", "fatal"}

\* Line 710, after retries-- : the error is rethrown when no retry is left.
GiveUp(retries, error) == retries = 0

\* backoffDelay as it would be without the exponent: the same delay before
\* every retry.
FixedDelay(attempt) == Delay

\* backoffDelay as it would be without any wait.
NoDelay(attempt) == 0

\* Line 712: the delay before the next attempt.
backoffDelay(attempt) == Delay * (2 ^ attempt)

SetResult(s, r) == [s EXCEPT !.submissions[Len(s.submissions)].result = r]

\* Lines 674-680 and 706: the submission succeeds; retryWithBackoff and the
\* handler return.
invalidationCreated(i) ==
  /\ inv[i].pc = "invalidating"
  /\ Set(i, Returned(SetResult(inv[i], "ok")))
  /\ UNCHANGED <<bucket, distributions, now, event>>

\* Lines 681-684 and 707-717: the submission fails; retryWithBackoff
\* rethrows or starts the wait before the next attempt.
invalidationFailed(i) ==
  /\ inv[i].pc = "invalidating"
  /\ \E error \in Errors :
       LET s == SetResult(inv[i], error)
           t == [s EXCEPT !.retries = @ - 1, !.attempt = @ + 1]
       IN  Set(i, IF GiveUp(t.retries, error)
                  THEN Thrown(t, "InvalidationFailed")
                  ELSE [t EXCEPT !.pc = "backoff",
                                 !.waits = Append(@, backoffDelay(t.attempt))])
  /\ UNCHANGED <<bucket, distributions, now, event>>

\* Lines 717, 704-706: the wait is over and fn() is called again.
retryWithBackoff(i) ==
  /\ inv[i].pc = "backoff"
  /\ inv[i].retries > 0
  /\ Set(i, Submit(inv[i]))
  /\ UNCHANGED <<bucket, distributions, now, event>>

\* Time passes.
Tick ==
  /\ now < MaxClock
  /\ now' = now + 1
  /\ UNCHANGED <<bucket, distributions, event, inv>>

\* ------------------------------------------------------------------------
\* Specification
\* ------------------------------------------------------------------------

Step(i) ==
  \/ handler(i)
  \/ listObjects(i)
  \/ deleteObjects(i)
  \/ fetchS3ObjectStream(i)
  \/ emitEntry(i)
  \/ bodyConsumed(i)
  \/ uploadFileToS3(i)
  \/ uploadFailed(i)
  \/ finish(i)
  \/ unzipError(i)
  \/ getDistributionIdByName(i)
  \/ invalidationCreated(i)
  \/ invalidationFailed(i)
  \/ retryWithBackoff(i)

Next == (\E i \in Invocations : Step(i)) \/ Tick

Spec == Init /\ [][Next]_vars

\* The same invocations with every request of the purge answered in the
\* end: a ListObjectsV2 or DeleteObjects request that is outstanding gets
\* its response or its error.
SpecFair ==
  /\ Spec
  /\ \A i \in Invocations : WF_vars(listObjects(i)) /\ WF_vars(deleteObjects(i))

\* ------------------------------------------------------------------------
\* Two invocations in sequence
\* ------------------------------------------------------------------------

\* The handler is invoked twice for the same object: the platform delivers
\* the notification again (its retry of a failed invocation, or a repeated
\* delivery), and the second invocation starts when the first is over.
Runs == {1, 2}

\* Invocation i is over: the handler's promise is settled and no request,
\* callback or stream of the invocation is outstanding.
Settled(i) ==
  /\ inv[i].pc = "done"
  /\ \A b \in 1..Len(inv[i].deleteBatches) : inv[i].deleteBatches[b].state # "inflight"
  /\ \A k \in 1..Len(inv[i].entries) : inv[i].entries[k] \notin InFlight
  /\ inv[i].parser # "parsing"

\* The archive of the repeated invocations, and the objects that may lie
\* under the destination prefix before the first of them.
RepeatedArchive == <<ScriptEntry, PlainEntry>>
RepeatedStaleKeys == { <<"a", "/", "r", "/", "o", ".", "h">>, <<"a", "/", "r", "/", "k">> }

InitSeq ==
  /\ \E stale \in {{}, RepeatedStaleKeys} :
       /\ event = [i \in Runs |-> <<[key |-> SiteKeyEncoded]>>]
       /\ bucket = StagedBucket(<<[key |-> SiteKeyEncoded]>>, RepeatedArchive, stale)
  /\ distributions = <<Distribution("E1", <<"a">>)>>
  /\ now = 0
  /\ inv = [i \in Runs |-> IdleInvocation]

NextSeq ==
  \/ Step(1)
  \/ Settled(1) /\ Step(2)
  \/ Tick

SpecSeq == InitSeq /\ [][NextSeq]_vars

\* ------------------------------------------------------------------------
\* Two invocations at the same time
\* ------------------------------------------------------------------------

\* The platform runs invocations for two deliveries side by side (in two
\* execution environments); both work on the same bucket and the same
\* account, and their clocks show the same time.
InitConc ==
  /\ event = [i \in Runs |-> <<[key |-> SiteKeyEncoded]>>]
  /\ bucket = StagedBucket(<<[key |-> SiteKeyEncoded]>>, <<IndexEntry>>, {})
  /\ distributions = <<Distribution("E1", <<"a">>)>>
  /\ now = 0
  /\ inv = [i \in Runs |-> IdleInvocation]

NextConc == (\E i \in Runs : Step(i)) \/ Tick

SpecConc == InitConc /\ [][NextConc]_vars

\* ------------------------------------------------------------------------
\* Two invocations for two archives staged under the same key
\* ------------------------------------------------------------------------

\* The archive staged first, the archive staged over it, and the objects
\* earlier deployments left: two under the destination prefix a/r, one of
\* them under a key of the second archive, and one under a/r2.
FirstArchive == <<IndexEntry, PlainEntry>>
SecondArchive == <<ScriptEntry>>
RaceStaleKeys ==
  { <<"a", "/", "r", "/", "o", ".", "h">>,
    <<"a", "/", "r", "/", "s", "/", "a", ".", "j">>,
    <<"a", "/", "r", "2", "/", "k">> }

InitRace ==
  /\ event = [i \in Runs |-> <<[key |-> SiteKeyEncoded]>>]
  /\ bucket = StagedBucket(<<[key |-> SiteKeyEncoded]>>, FirstArchive, RaceStaleKeys)
  /\ distributions = <<Distribution("E1", <<"a">>)>>
  /\ now = 0
  /\ inv = [i \in Runs |-> IdleInvocation]

\* The second archive has been put under the staging key.
Restaged ==
  /\ SiteKey \in DOMAIN bucket
  /\ bucket[SiteKey].Body = [entries |-> SecondArchive]

\* The second archive is put under the staging key while the invocation
\* for the first is reading the first; the notification of this upload
\* invokes the handler a second time.
restage ==
  /\ inv[1].bodyStream = "stream"
  /\ SiteKey \in DOMAIN bucket
  /\ ~Restaged
  /\ bucket' = [bucket EXCEPT ![SiteKey] = Object([entries |-> SecondArchive], "application/zip")]
  /\ UNCHANGED <<distributions, now, event, inv>>

NextRace ==
  \/ Step(1)
  \/ restage
  \/ Restaged /\ Step(2)

SpecRace == InitRace /\ [][NextRace]_vars

\* ------------------------------------------------------------------------
\* Properties
\* ------------------------------------------------------------------------

\* The PutObject requests invocation i has sent: the emitted File entries.
Uploads(i) ==
  { k \in 1..Len(inv[i].entries) : inv[i].archive[k].type = "File" }

\* The uploads of invocation i that have been sent and not answered.
PendingUploads(i) == { k \in Uploads(i) : inv[i].entries[k] \in InFlight }

\* The distribution lookup of invocation i has been requested.
LookupRequested(i) ==
  \/ inv[i].pc \in {"resolving", "invalidating", "backoff"}
  \/ inv[i].submissions # <<>>
  \/ inv[i].cause \in {"DistributionLookupFailed", "NoDistributions", "NotFound"}

\* C1: an upload request is sent only after the purge is complete: the
\* listing has reported its last page and every delete request sent has
\* been answered.
PurgePrecedesUpload ==
  \A i \in Invocations :
    Uploads(i) # {} =>
      /\ inv[i].isTruncated = FALSE
      /\ inv[i].deletesReturned = inv[i].deletesSent
      /\ \A b \in 1..Len(inv[i].deleteBatches) : inv[i].deleteBatches[b].state = "done"

\* C1 witness: an upload has been sent after a purge whose last page was
\* deleted by two concurrent requests.
PurgePrecedesUploadWitness ==
  \E i \in Invocations :
    /\ Uploads(i) # {}
    /\ Len(inv[i].deleteBatches) = 2
    /\ inv[i].totalDeleted = 3

\* key matches ^zip/.+\.zip$
MatchesStaging(key) ==
  /\ StartsWith(key, ZipSlash)
  /\ EndsWith(key, DotZip)
  /\ Len(key) > Len(ZipSlash) + Len(DotZip)

\* Invocation i was notified of a key of the staging convention.
Staged(i) == MatchesStaging(inv[i].decodedObjectKey)

\* C2: in an invocation on a staged key, the distribution lookup and the
\* invalidation are requested only when no upload of the invocation is
\* still in flight.
UploadsPrecedeInvalidation ==
  \A i \in Invocations :
    (Staged(i) /\ LookupRequested(i)) => PendingUploads(i) = {}

\* The keys of the bucket under the prefix: prefix, "/", anything.
KeysUnder(prefix) == { k \in DOMAIN bucket : StartsWith(k, prefix \o Slash) }

\* The archive staged under the key invocation i was notified of.
StagedArchive(i) ==
  IF inv[i].decodedObjectKey \in DOMAIN bucket
  THEN bucket[inv[i].decodedObjectKey].Body.entries
  ELSE <<>>

\* { P/strip_first_segment(entry.path) : entry a File entry of A }, the
\* path taken without a leading "zip/".
PublishedKeys(P, A) ==
  { P \o Slash \o StripFirstDir(StripZipPrefix(A[k].path)) :
      k \in { n \in 1..Len(A) : A[n].type = "File" } }

\* Invocation i went past the handler's "zip/" guard.
Processed(i) == StartsWith(inv[i].decodedObjectKey, ZipSlash)

\* C3: once an invocation on a staged key that read archive A has succeeded
\* and none of its requests is in flight any more, the keys under the destination prefix P
\* are exactly the keys P/... of A's File entries.
SuccessPublishesArchive ==
  \A i \in Invocations :
    ( /\ Staged(i)
      /\ inv[i].result = "resolved"
      /\ inv[i].parser = "finished"
      /\ PendingUploads(i) = {} ) =>
      KeysUnder(inv[i].destinationPath)
        = PublishedKeys(inv[i].destinationPath, StagedArchive(i))

\* C4: for a key that does not match ^zip/.+\.zip$ the handler deletes
\* nothing, uploads nothing, invalidates nothing and, when it ends, has
\* returned successfully.
UnstagedKeyIgnored ==
  \A i \in Invocations :
    (inv[i].decodedObjectKey # <<>> /\ ~MatchesStaging(inv[i].decodedObjectKey)) =>
      /\ inv[i].deleteRequested = {}
      /\ Uploads(i) = {}
      /\ inv[i].submissions = <<>>
      /\ inv[i].pc = "done" => inv[i].result = "resolved"

\* C5: with an empty destination prefix the handler fails before any purge:
\* no ListObjectsV2 or DeleteObjects request is ever sent for the empty prefix.
EmptyPrefixRejected ==
  \A i \in Invocations :
    ( /\ Processed(i)
      /\ StripZipSuffix(StripZipPrefix(inv[i].decodedObjectKey)) = <<>> ) =>
      /\ inv[i].pc = "done"
      /\ inv[i].result = "rejected"
      /\ inv[i].deletesSent = 0

\* C6: no delete request of the purge names the object that raised the
\* notification.
SourceNeverDeleted ==
  \A i \in Invocations :
    Processed(i) => inv[i].decodedObjectKey \notin inv[i].deleteRequested

\* Invocation i, on a staged key, has read its archive to the end.
Extracted(i) == Staged(i) /\ inv[i].parser = "finished"

\* Every submission of invocation i has been answered with result r.
AllSubmissions(i, r) ==
  \A n \in 1..Len(inv[i].submissions) : inv[i].submissions[n].result = r

\* C7: when every submission fails with a transient error, the invalidator
\* gives up after the initial submission and exactly 3 retries (stated of
\* the invocations that extracted their archive).
GivesUpAfterThreeRetries ==
  \A i \in Invocations :
    ( /\ Extracted(i)
      /\ inv[i].cause = "InvalidationFailed"
      /\ AllSubmissions(i, "transient") ) =>
      Len(inv[i].submissions) = 1 + 3

\* C8: a submission that fails with a fatal error is the last one, and no
\* backoff wait follows it (stated of the invocations that extracted their
\* archive).
FatalErrorNotRetried ==
  \A i \in Invocations :
    \A n \in 1..Len(inv[i].submissions) :
      (Extracted(i) /\ inv[i].submissions[n].result = "fatal") =>
        /\ n = Len(inv[i].submissions)
        /\ Len(inv[i].waits) < n
        /\ inv[i].pc = "done"

\* The submissions of invocation i that created an invalidation.
Created(i) ==
  { n \in 1..Len(inv[i].submissions) : inv[i].submissions[n].result = "ok" }

\* Invocation i created exactly one invalidation, for a distribution whose
\* comment is the first segment of the destination prefix, with the single
\* path "/*".
InvalidatedOnce(i) ==
  /\ Cardinality(Created(i)) = 1
  /\ \A n \in Created(i) :
       /\ inv[i].submissions[n].Paths = <<"/*">>
       /\ \E d \in 1..Len(distributions) :
            /\ distributions[d].Id = inv[i].submissions[n].DistributionId
            /\ distributions[d].Comment = FirstSegment(inv[i].destinationPath)

\* C9 as stated: every successful invocation created exactly one invalidation.
EverySuccessInvalidatesOnce ==
  \A i \in Invocations : inv[i].result = "resolved" => InvalidatedOnce(i)

\* C9 amended: every successful invocation whose key lies in "zip/" created
\* exactly one invalidation, for the distribution named by the first segment
\* of the destination prefix, with the single path "/*".
ProcessedSuccessInvalidatesOnce ==
  \A i \in Invocations :
    (inv[i].result = "resolved" /\ Processed(i)) => InvalidatedOnce(i)

\* C9 witness: a successful invocation that needed a retry, in an account
\* where two distributions carry the name.
ProcessedSuccessInvalidatesOnceWitness ==
  \E i \in Invocations :
    /\ inv[i].result = "resolved"
    /\ Processed(i)
    /\ Len(inv[i].submissions) = 2
    /\ Len(distributions) = 3
    /\ inv[i].distributionId = "E1"

\* A request of invocation i failed after the purge.
FailedAfterPurge(i) ==
  \/ inv[i].cause \in { "ReadFailed", "MalformedArchive", "UploadFailed",
                        "DistributionLookupFailed", "NoDistributions", "NotFound",
                        "InvalidationFailed" }
  \/ inv[i].parser = "error"
  \/ \E k \in 1..Len(inv[i].entries) : inv[i].entries[k] = "failed"

\* C10: in an invocation on a staged key, a failure after the purge makes
\* the invocation fail, and a failure before the invalidation step leaves
\* the invocation without any invalidation request.
FailurePropagates ==
  \A i \in Invocations :
    Staged(i) =>
      /\ (inv[i].pc = "done" /\ FailedAfterPurge(i)) => inv[i].result = "rejected"
      /\ (FailedAfterPurge(i) /\ inv[i].cause # "InvalidationFailed") =>
           inv[i].submissions = <<>>

\* Some upload of invocation i has failed.
UploadHasFailed(i) == \E k \in Uploads(i) : inv[i].entries[k] = "failed"

\* C11: an invocation on a staged key in which the upload of an entry has
\* failed never sends an invalidation request afterwards, and when it ends
\* it has failed.
UploadFailureFails ==
  \A i \in Invocations :
    (Staged(i) /\ UploadHasFailed(i)) =>
      /\ inv[i].pc \notin {"invalidating", "backoff"}
      /\ inv[i].pc = "done" => inv[i].result = "rejected"

\* The keys invocation i has stored: the final keys of the entries whose
\* PutObject succeeded.
UploadedKeys(i) ==
  { finalKey(inv[i].archive[k].path, inv[i].destinationPath) :
      k \in { n \in Uploads(i) : inv[i].entries[n] = "uploaded" } }

\* Every object under the prefix is an entry of the archive as uploadFileToS3
\* stores it.
ContentOfArchive(prefix, archive) ==
  \A key \in KeysUnder(prefix) :
    \E k \in 1..Len(archive) :
      /\ key = finalKey(archive[k].path, prefix)
      /\ bucket[key] = Object([path |-> archive[k].path], contentType(archive[k].path))

TwiceEqualsOnce ==
  ( /\ inv[1].result = "resolved" /\ inv[1].parser = "finished"
    /\ inv[2].result = "resolved" /\ inv[2].parser = "finished"
    /\ Settled(2) ) =>
    KeysUnder(inv[2].destinationPath) = UploadedKeys(1)

\* C14: at most one upload request of an invocation is in flight at a time:
\* when entry k+1 has been emitted and its upload started, the upload of
\* every earlier entry has completed.
UploadsOneAtATime ==
  \A i \in Invocations :
    Staged(i) => Cardinality(PendingUploads(i)) <= 1

\* The caller references of the CreateInvalidation requests of invocation i.
CallerReferences(i) ==
  { inv[i].submissions[n].CallerReference : n \in 1..Len(inv[i].submissions) }

\* C15: two invalidate calls, made by two invocations, never carry the same
\* caller reference.
CallerReferenceUnique ==
  \A i, j \in Runs :
    i # j => CallerReferences(i) \cap CallerReferences(j) = {}

\* The service has answered the ListDistributions request of invocation i.
LookupAnswered(i) ==
  \/ inv[i].cause \in {"NoDistributions", "NotFound"}
  \/ inv[i].distributionId # "undefined"

\* C16: the lookup fails with NoDistributions when the account has no
\* distribution, with NotFound when no distribution of the account carries
\* the name as its comment, and otherwise yields the id of the first
\* distribution of the account that does.
ResolvesFirstMatch ==
  \A i \in Invocations :
    (Staged(i) /\ LookupAnswered(i)) =>
      LET name == distributionName(inv[i].destinationPath)
          found == FindDistribution(distributions, name)
      IN  IF distributions = <<>> THEN inv[i].cause = "NoDistributions"
          ELSE IF found = 0 THEN inv[i].cause = "NotFound"
          ELSE /\ inv[i].cause # "NotFound"
               /\ inv[i].distributionId = distributions[found].Id

\* The purge of invocation i is complete.
PurgeComplete(i) ==
  /\ inv[i].isTruncated = FALSE
  /\ inv[i].deletesReturned = inv[i].deletesSent
  /\ \A b \in 1..Len(inv[i].deleteBatches) : inv[i].deleteBatches[b].state = "done"

\* Every File entry of the archive invocation i read has been uploaded.
AllUploaded(i) ==
  /\ inv[i].parser = "finished"
  /\ Len(inv[i].entries) = Len(inv[i].archive)
  /\ \A k \in Uploads(i) : inv[i].entries[k] = "uploaded"

\* C17: when an invocation on a staged key that read its archive fails
\* because no distribution carries the name, the purge is complete, every
\* upload has succeeded, no invalidation request was sent, and the error
\* the handler fails with names the failure DistributionLookupFailed.
LookupFailureAfterPublish ==
  \A i \in Invocations :
    ( /\ Staged(i)
      /\ inv[i].bodyStream = "stream"
      /\ inv[i].cause \in {"NoDistributions", "NotFound"}
      /\ FindDistribution(distributions, distributionName(inv[i].destinationPath)) = 0 ) =>
      /\ PurgeComplete(i)
      /\ AllUploaded(i)
      /\ inv[i].submissions = <<>>
      /\ inv[i].result = "rejected"
      /\ inv[i].error = "DistributionLookupFailed"

\* The keys of a sequence of delete batches, in order.
RECURSIVE BatchKeys(_)
BatchKeys(batches) ==
  IF batches = <<>> THEN <<>> ELSE Head(batches).keys \o BatchKeys(Tail(batches))

\* C18: every delete request of the purge names at least one key and at
\* most BatchSize keys (1000 in the code), and the batches of a page, put
\* end to end, are the page: every listed key is in exactly one batch.
BatchesPartitionPage ==
  \A i \in Invocations :
    /\ BatchKeys(inv[i].deleteBatches) = inv[i].contents
    /\ \A b \in 1..Len(inv[i].deleteBatches) :
         /\ Len(inv[i].deleteBatches[b].keys) >= 1
         /\ Len(inv[i].deleteBatches[b].keys) <= BatchSize
    /\ \A m, n \in 1..Len(inv[i].contents) :
         m # n => inv[i].contents[m] # inv[i].contents[n]

\* C18 witness: a page of more keys than a batch holds, cut into a full
\* batch and a batch with the rest.
BatchesPartitionPageWitness ==
  \E i \in Invocations :
    /\ Len(inv[i].contents) = BatchSize + 1
    /\ Len(inv[i].deleteBatches) = 2
    /\ Len(inv[i].deleteBatches[1].keys) = BatchSize
    /\ Len(inv[i].deleteBatches[2].keys) = 1

\* Invocation i has sent no request and stored nothing.
NoWork(i) ==
  /\ inv[i].deletesSent = 0
  /\ inv[i].entries = <<>>
  /\ inv[i].submissions = <<>>
  /\ inv[i].pc \in {"idle", "done"}

\* C19: an invocation whose notification carries no record does no work
\* and, when it ends, has returned without an error.
NoRecordReturns ==
  \A i \in Invocations :
    event[i] = <<>> =>
      /\ NoWork(i)
      /\ inv[i].pc = "done" => inv[i].result = "resolved"

\* C20: when the read of the source object yields no body, the invocation
\* ends there: it returns successfully without a distribution lookup and
\* without an invalidation request.
NoBodyReturns ==
  \A i \in Invocations :
    (Staged(i) /\ inv[i].bodyStream = "null") =>
      /\ inv[i].pc = "done"
      /\ inv[i].result = "resolved"
      /\ ~LookupRequested(i)
      /\ inv[i].entries = <<>>

\* The ids of the distributions that carry the name as their comment.
IdsNamed(name) ==
  { distributions[d].Id : d \in { n \in 1..Len(distributions) : distributions[n].Comment = name } }

\* C21: in an invocation whose notification carries several records, the
\* object read, the prefix purged, the keys uploaded and the distribution
\* invalidated are those of the first record; the objects the other records
\* name stay as they are and nothing is stored under their prefixes.
OnlyFirstRecordProcessed ==
  \A i \in Invocations :
    (Len(event[i]) > 1 /\ inv[i].pc # "idle") =>
      LET first == decodeURIComponent(event[i][1].key)
          P == StripZipSuffix(StripZipPrefix(first))
      IN  /\ inv[i].decodedObjectKey = first
          /\ inv[i].destinationPath = P
          /\ \A key \in inv[i].deleteRequested : StartsWith(key, P)
          /\ \A key \in UploadedKeys(i) : StartsWith(key, P \o Slash)
          /\ \A n \in 1..Len(inv[i].submissions) :
               inv[i].submissions[n].DistributionId \in IdsNamed(FirstSegment(P))
          /\ \A n \in 2..Len(event[i]) :
               LET other == decodeURIComponent(event[i][n].key)
               IN  /\ other \in DOMAIN bucket
                   /\ "entries" \in DOMAIN bucket[other].Body
                   /\ KeysUnder(StripZipSuffix(StripZipPrefix(other))) = {}

\* C21 witness: an invocation with two records has purged, uploaded and
\* invalidated for the first record and succeeded.
OnlyFirstRecordProcessedWitness ==
  \E i \in Invocations :
    /\ Len(event[i]) = 2
    /\ inv[i].result = "resolved"
    /\ inv[i].totalDeleted >= 1
    /\ UploadedKeys(i) # {}
    /\ Created(i) # {}

\* s.split("/")
RECURSIVE Split(_)
Split(s) ==
  IF FirstSlash(s) = 0 THEN <<s>>
  ELSE <<SubSeq(s, 1, FirstSlash(s) - 1)>> \o Split(DropChars(s, FirstSlash(s)))

\* segments.join("/")
RECURSIVE Join(_)
Join(segments) ==
  IF segments = <<>> THEN <<>>
  ELSE IF Len(segments) = 1 THEN segments[1]
  ELSE segments[1] \o Slash \o Join(Tail(segments))

\* The path without its first segment, whatever that segment is.
DropFirstSegment(path) == Join(Tail(Split(path)))

\* The path without its first directory component (the archive's top-level
\* folder); a path that names no directory is left whole.
DropFirstDirectory(path) ==
  IF Len(Split(path)) > 1 THEN Join(Tail(Split(path))) ELSE path

\* The entries of invocation i whose upload has succeeded.
Uploaded(i) == { k \in Uploads(i) : inv[i].entries[k] = "uploaded" }

\* Entry k of invocation i is stored under the destination prefix, "/" and
\* the relative path.
StoredUnder(i, k, relative) ==
  LET key == inv[i].destinationPath \o Slash \o relative
  IN  /\ key \in DOMAIN bucket
      /\ bucket[key].Body = [path |-> inv[i].archive[k].path]

\* C22 as stated: every uploaded entry is stored under the destination
\* prefix, "/" and its path with a leading "zip/" stripped and the first
\* path segment removed.
UploadKeyDropsFirstSegment ==
  \A i \in Invocations :
    \A k \in Uploaded(i) :
      StoredUnder(i, k, DropFirstSegment(StripZipPrefix(inv[i].archive[k].path)))

\* C22 amended: every uploaded entry is stored under the destination
\* prefix, "/" and its path with a leading "zip/" stripped and the first
\* directory component removed; a path without directory component is
\* kept whole.
UploadKeyDropsFirstDirectory ==
  \A i \in Invocations :
    \A k \in Uploaded(i) :
      StoredUnder(i, k, DropFirstDirectory(StripZipPrefix(inv[i].archive[k].path)))

\* C22 witness: both entries of the archive with a "zip/" path and a path
\* without directory are uploaded, as are the entries of the archive with
\* a path of two directories.
UploadKeyDropsFirstDirectoryWitness ==
  \E i \in Invocations :
    /\ inv[i].archive \in { <<ZippedEntry, BareEntry>>, <<ScriptEntry, PlainEntry>> }
    /\ Uploaded(i) = {1, 2}
    /\ inv[i].destinationPath = <<"a", "/", "r">>

\* Invocation i, on a staged key, has read an archive without entries to
\* its end.
EmptyArchiveRead(i) ==
  /\ Staged(i)
  /\ inv[i].bodyStream = "stream"
  /\ inv[i].archive = <<>>
  /\ inv[i].parser = "finished"

\* C23: when the archive has no entry, the purge is complete, no upload is
\* sent, the distribution lookup is requested all the same, and the
\* invocation does not end before the invalidation: it succeeds with one
\* invalidation created, or fails in the lookup or the invalidation.
EmptyArchiveStillInvalidates ==
  \A i \in Invocations :
    EmptyArchiveRead(i) =>
      /\ PurgeComplete(i)
      /\ inv[i].entries = <<>>
      /\ KeysUnder(inv[i].destinationPath) = {}
      /\ LookupRequested(i)
      /\ inv[i].result = "resolved" => InvalidatedOnce(i)
      /\ inv[i].result = "rejected" =>
           inv[i].cause \in { "DistributionLookupFailed", "NoDistributions", "NotFound",
                              "InvalidationFailed" }

\* C23 witness: an invocation on an empty archive has purged stale objects
\* and succeeded with its invalidation created.
EmptyArchiveStillInvalidatesWitness ==
  \E i \in Invocations :
    /\ EmptyArchiveRead(i)
    /\ inv[i].totalDeleted >= 1
    /\ inv[i].isEmpty
    /\ inv[i].result = "resolved"
    /\ Cardinality(Created(i)) = 1

\* The file extension of a path: the text after the last "." of its last
\* segment, when that "." is not the segment's first character; <<>> when
\* the file has no extension.
Extension(path) ==
  LET name == Split(path)[Len(Split(path))]
      dot == LastIndexOf(name, ".")
  IN  IF dot <= 1 THEN <<>> ELSE DropChars(name, dot)

\* The type table's entry for the file extension of the path, or
\* application/octet-stream when the table yields nothing.
TypeOfExtension(path) ==
  IF Extension(path) = <<>> \/ MimeTypes(Extension(path)) = NoType
  THEN "application/octet-stream"
  ELSE MimeTypes(Extension(path))

\* C24: every object uploaded by an invocation on a staged key carries the
\* content type the type table gives for the file extension of its entry,
\* application/octet-stream when it gives none.
ContentTypeByExtension ==
  \A i \in Invocations :
    Staged(i) =>
      \A key \in KeysUnder(inv[i].destinationPath) :
        "path" \in DOMAIN bucket[key].Body =>
          bucket[key].ContentType = TypeOfExtension(bucket[key].Body.path)

\* The requests invocation i has sent so far: PutObject, DeleteObjects and
\* CreateInvalidation requests, counted.
RequestsSent(i) ==
  [ uploads       |-> Cardinality(Uploads(i)),
    deletes       |-> inv[i].deletesSent,
    invalidations |-> Len(inv[i].submissions) ]

\* C25: once the handler of an invocation on a staged key has returned or
\* thrown, the invocation sends no further request; after an upload failure
\* has made the handler throw, no later entry is uploaded.
NoRequestAfterReturn ==
  [][ \A i \in Invocations :
        (Staged(i) /\ inv[i].pc = "done") => RequestsSent(i)' = RequestsSent(i) ]_vars

\* The results of the submissions of invocation i, in order.
Results(i) == [n \in 1..Len(inv[i].submissions) |-> inv[i].submissions[n].result]

\* C26: the backoff waits of an invalidate call double from the initial
\* delay (wait k is Delay * 2^k, twice wait k-1), and there is one wait
\* before every retry and no other: none after the submission that
\* succeeded or after the last failed attempt.
BackoffDoubles ==
  \A i \in Invocations :
    /\ \A k \in 1..Len(inv[i].waits) :
         /\ inv[i].waits[k] = Delay * (2 ^ k)
         /\ k > 1 => inv[i].waits[k] = 2 * inv[i].waits[k - 1]
    /\ inv[i].submissions # <<>> =>
         Len(inv[i].waits) =
           IF inv[i].pc = "backoff" THEN Len(inv[i].submissions)
           ELSE Len(inv[i].submissions) - 1

\* C26 witness: an invalidate call has waited twice and given up after its
\* third submission.
BackoffDoublesWitness ==
  \E i \in Invocations :
    /\ inv[i].waits = <<2 * Delay, 4 * Delay>>
    /\ Len(inv[i].submissions) = 3
    /\ inv[i].cause = "InvalidationFailed"

\* C27: when the first submission has failed with a transient error and
\* the second has succeeded, one retry was made after one wait of at least
\* the initial delay, one invalidation is created and the invocation has
\* succeeded.
OneRetryThenSuccess ==
  \A i \in Invocations :
    ( /\ Len(inv[i].submissions) >= 2
      /\ inv[i].submissions[1].result = "transient"
      /\ inv[i].submissions[2].result = "ok" ) =>
      /\ Len(inv[i].submissions) = 2
      /\ Len(inv[i].waits) = 1
      /\ inv[i].waits[1] >= Delay
      /\ Created(i) = {2}
      /\ inv[i].pc = "done"
      /\ inv[i].result = "resolved"

\* C27 witness: an invocation that extracted its archive has had its first
\* submission fail with a transient error and its second succeed.
OneRetryThenSuccessWitness ==
  \E i \in Invocations :
    /\ Extracted(i)
    /\ Results(i) = <<"transient", "ok">>

\* The state of the invalidate call of invocation i, in the terms of the
\* state machine Idle -> InFlight -> {Ok | TransientErr -> Backoff ->
\* InFlight | FatalErr}, with the terminal states Ok, FatalErr and
\* RetriesExhausted.
CallState(i) ==
  LET last == inv[i].submissions[Len(inv[i].submissions)].result
  IN  IF inv[i].submissions = <<>> THEN "Idle"
      ELSE IF inv[i].pc = "invalidating" THEN "InFlight"
      ELSE IF inv[i].pc = "backoff"
           THEN (IF last = "transient" THEN "Backoff" ELSE "BackoffAfterFatalErr")
      ELSE IF last = "ok" THEN "Ok"
      ELSE IF last = "fatal" THEN "FatalErr"
      ELSE "RetriesExhausted"

\* The transitions of the state machine.
CallEdges ==
  { <<"Idle", "InFlight">>, <<"InFlight", "Ok">>, <<"InFlight", "Backoff">>,
    <<"Backoff", "InFlight">>, <<"InFlight", "FatalErr">>,
    <<"InFlight", "RetriesExhausted">> }

\* C28: the invalidate call of an invocation that extracted its archive
\* moves along the transitions of the state machine only, and when it ends
\* in RetriesExhausted the invocation fails with InvalidationFailed.
InvalidateFollowsStateMachine ==
  [][ \A i \in Invocations :
        Extracted(i) =>
          /\ \/ CallState(i)' = CallState(i)
             \/ <<CallState(i), CallState(i)'>> \in CallEdges
          /\ CallState(i)' = "RetriesExhausted" =>
               (inv[i].cause' = "InvalidationFailed" /\ inv[i].result' = "rejected") ]_vars

\* C29: every submission of an invalidate call carries the caller
\* reference, the distribution id and the path list of the first.
RetriesRepeatRequest ==
  \A i \in Invocations :
    \A n \in 1..Len(inv[i].submissions) :
      /\ inv[i].submissions[n].CallerReference = inv[i].submissions[1].CallerReference
      /\ inv[i].submissions[n].DistributionId = inv[i].submissions[1].DistributionId
      /\ inv[i].submissions[n].Paths = inv[i].submissions[1].Paths

\* C29 witness: the clock has advanced between the first submission of an
\* invalidate call and its third.
RetriesRepeatRequestWitness ==
  \E i \in Invocations :
    /\ Len(inv[i].submissions) = 3
    /\ inv[i].submissions[3].CallerReference < now

\* C30: a list request is outstanding only when every delete request of the
\* page before it has returned without error, and a purge with a failed
\* delete or list request has failed the invocation, which then stays
\* ended with no further list request.
PagesJoinBeforeNextList ==
  \A i \in Invocations :
    LET batches == inv[i].deleteBatches
    IN  /\ inv[i].pc = "listing" =>
             \A b \in 1..Len(batches) : batches[b].state = "done"
        /\ (\E b \in 1..Len(batches) : batches[b].state = "failed") =>
             /\ inv[i].pc = "done"
             /\ inv[i].result = "rejected"
             /\ inv[i].cause = "PurgeFailed"
        /\ inv[i].cause = "PurgeFailed" =>
             (inv[i].pc = "done" /\ inv[i].result = "rejected")

\* C30 witness: the two delete requests of a truncated page have both
\* returned and the list request for the next page is outstanding.
PagesJoinBeforeNextListWitness ==
  \E i \in Invocations :
    /\ inv[i].pc = "listing"
    /\ inv[i].isTruncated
    /\ Len(inv[i].deleteBatches) = 2
    /\ inv[i].deletesReturned = 2

\* The loop of the purge of invocation i is running.
Purging(i) == inv[i].pc \in {"listing", "deleting"}

\* C31: when the purge has returned (the GetObject request is the next
\* step) the listing has reported its last page, every key sent for
\* deletion has been counted, and no key that starts with the prefix is
\* left, so every such key of the bucket the purge found was sent in a
\* DeleteObjects request; and a purge that has started ends.
PurgeFollowsTokens ==
  /\ [](\A i \in Invocations :
          inv[i].pc = "fetching" =>
            /\ inv[i].isTruncated = FALSE
            /\ inv[i].continuationToken = <<>>
            /\ Listing(inv[i].destinationPath, <<>>) = <<>>
            /\ inv[i].deleteRequested \cap DOMAIN bucket = {})
  /\ \A i \in Invocations : Purging(i) ~> ~Purging(i)

\* C31 witness: a purge that needed three pages has returned.
PurgeFollowsTokensWitness ==
  \E i \in Invocations :
    /\ inv[i].pc = "fetching"
    /\ inv[i].deletesSent = 3
    /\ Cardinality(inv[i].deleteRequested) = 3

\* The keys of the DeleteObjects requests of invocation i that have not
\* been answered, or were answered with an error.
Unanswered(i) ==
  UNION { SeqToSet(inv[i].deleteBatches[b].keys) :
            b \in { n \in 1..Len(inv[i].deleteBatches) :
                      inv[i].deleteBatches[n].state # "done" } }

\* C32: the total of the purge is the number of keys of the DeleteObjects
\* requests that were answered, over all pages and all batches of a page;
\* those keys are gone from the bucket (as long as the invocation has
\* uploaded nothing); when the purge has returned the total counts every
\* key it sent for deletion, and it is 0 when no request was sent.
TotalCountsDeletedKeys ==
  \A i \in Invocations :
    LET counted == inv[i].deleteRequested \ Unanswered(i)
    IN  /\ inv[i].totalDeleted = Cardinality(counted)
        /\ Uploads(i) = {} => counted \cap DOMAIN bucket = {}
        /\ inv[i].pc = "fetching" =>
             inv[i].totalDeleted = Cardinality(inv[i].deleteRequested)
        /\ inv[i].deletesSent = 0 => inv[i].totalDeleted = 0

\* C32 witness: a purge of two pages, one of them deleted by two concurrent
\* requests, has returned with a total of four keys.
TotalCountsDeletedKeysWitness ==
  \E i \in Invocations :
    /\ inv[i].pc = "fetching"
    /\ inv[i].deletesSent = 3
    /\ inv[i].totalDeleted = 4

\* The Directory entries of its archive that invocation i has been handed.
Directories(i) ==
  { k \in 1..Len(inv[i].entries) : inv[i].archive[k].type = "Directory" }

\* C33: a Directory entry is drained, no PutObject request is sent for it
\* and no object is stored from it; and when the entry emitted last is a
\* Directory, the parser, if it has entries left to read, can emit the next.
DirectoriesDrained ==
  \A i \in Invocations :
    /\ \A k \in Directories(i) :
         /\ inv[i].entries[k] = "drained"
         /\ \A key \in DOMAIN bucket :
              bucket[key].Body # [path |-> inv[i].archive[k].path]
    /\ ( /\ Len(inv[i].entries) \in Directories(i)
         /\ Len(inv[i].entries) < Len(inv[i].archive)
         /\ inv[i].parser = "parsing" ) => ENABLED emitEntry(i)

\* C33 witness: the entry after a Directory entry has been emitted and
\* uploaded.
DirectoriesDrainedWitness ==
  \E i \in Invocations :
    /\ 1 \in Directories(i)
    /\ Len(inv[i].entries) = 2
    /\ inv[i].entries[2] = "uploaded"

\* Both invocations have succeeded with every entry of their archives
\* uploaded, and nothing of either is outstanding.
BothPublished ==
  \A i \in Runs :
    /\ inv[i].result = "resolved"
    /\ Settled(i)
    /\ AllUploaded(i)

\* C34: when two invocations for the same destination prefix, running side
\* by side, have both succeeded with every upload stored, the objects under
\* the prefix are objects they uploaded, the objects of one of the two
\* archives are all there, and an object one invocation uploaded is missing
\* only if the purge of the other asked for its deletion.
RaceOutcome ==
  BothPublished =>
    LET P == inv[1].destinationPath
    IN  /\ KeysUnder(P) \subseteq UploadedKeys(1) \cup UploadedKeys(2)
        /\ \E i \in Runs : UploadedKeys(i) \subseteq KeysUnder(P)
        /\ \A i, j \in Runs :
             i # j => (UploadedKeys(i) \ KeysUnder(P)) \subseteq inv[j].deleteRequested

\* C34 witness: both invocations have succeeded, the purge of the second
\* deleted an object the first had uploaded, and the keys under the prefix
\* are the keys of neither archive.
RaceOutcomeWitness ==
  /\ BothPublished
  /\ UploadedKeys(1) \cap inv[2].deleteRequested # {}
  /\ KeysUnder(inv[1].destinationPath) # UploadedKeys(1)
  /\ KeysUnder(inv[1].destinationPath) # UploadedKeys(2)
  /\ UploadedKeys(1) # UploadedKeys(2)

\* C35: every key an invocation on a staged key, with destination prefix P,
\* sends for deletion or stores an object under is P, "/", anything.
StaysUnderPrefix ==
  \A i \in Invocations :
    Staged(i) =>
      \A key \in inv[i].deleteRequested \cup UploadedKeys(i) :
        StartsWith(key, inv[i].destinationPath \o Slash)

====
